---------------------------- MODULE Spec2Model ----------------------------
(***************************************************************************)
(* heritage-pathfind: ingestion of a ';'-delimited relationship table into *)
(* a petgraph undirected graph plus a HashMap index, and the shortest-path *)
(* query over it (src/src/main.rs).                                        *)
(*                                                                         *)
(* The program's own functions are translated from main.rs.  The library  *)
(* calls it makes (petgraph Graph::add_node / add_edge / find_edge /      *)
(* edges, petgraph::algo::astar, std BinaryHeap) are modelled by the      *)
(* algorithm the library runs, so that which of several parallel edges or *)
(* equally short paths is reported is computed and not assumed.  The only *)
(* nondeterminism is the input and the iteration order of the HashMap.    *)
(* The astar modelled is the one without a visited set (petgraph 0.8).    *)
(***************************************************************************)
EXTENDS Integers, Sequences, FiniteSets, TLC

VARIABLES
    csv_path,      \* CmdInput.csv_path: the file extract_graph_from_csv reads
    pc,            \* "start", "ingest" (inside extract_graph_from_csv's loop),
                   \* "built", "done", or "failed" (main returned an early error)
    rows,          \* rows the csv reader has yielded so far (dropped on return)
    graph,         \* PersonGraph: [nodes, edges] with petgraph's adjacency lists
    heritage_map,  \* HeritageMap: PersonID -> Heritage
    child_id,      \* get_shortest_path argument (start)
    ancestor_id,   \* get_shortest_path argument (finish)
    result         \* Result<Vec<PersonRelationship>, Box<Error>> of the query

vars == <<csv_path, pc, rows, graph, heritage_map, child_id, ancestor_id, result>>

-----------------------------------------------------------------------------
(* Bounds of the model *)

\* person identifiers that occur in the input are 1..MaxId
MaxId == 2
\* number of rows of the input
MaxRows == 2
\* number of non-null relative fields in the whole input
MaxRefs == 2

-----------------------------------------------------------------------------
(* Data: struct Person, enum Relationship, Option *)

\* Option::None of an Option<i32> field; identifiers are >= 1 in the model
None == 0

\* EdgeIndex::end(), the list terminator of petgraph's adjacency lists
EdgeEnd == -1

PersonIds == 1..MaxId

\* display names of the rows of "any.csv"; the fixed files carry their own
Names == {"n"}

Relationship == {"Spouse", "Father", "Mother"}

NoRelationship == "None"

OptionalId == {None} \cup PersonIds

Person == [PersonID : PersonIds, SpouseID : OptionalId, FatherID : OptionalId,
           MotherID : OptionalId, Person : Names]

is_some(opt) == opt # None

\* number of non-null optional fields of one row
RefCount(person) ==
    (IF is_some(person.SpouseID) THEN 1 ELSE 0)
  + (IF is_some(person.FatherID) THEN 1 ELSE 0)
  + (IF is_some(person.MotherID) THEN 1 ELSE 0)

RECURSIVE TotalRefs(_)
TotalRefs(rs) == IF rs = <<>> THEN 0 ELSE RefCount(Head(rs)) + TotalRefs(Tail(rs))

-----------------------------------------------------------------------------
(* petgraph::graph::Graph<i32, Relationship, Undirected, u32> *)

EmptyGraph == [nodes |-> <<>>, edges |-> <<>>]

\* node and edge indices are 0-based as in petgraph
NodeAt(g, ix) == g.nodes[ix + 1]
EdgeAt(g, ix) == g.edges[ix + 1]

node_count(g) == Len(g.nodes)
edge_count(g) == Len(g.edges)

\* Graph::add_node: push a node with empty adjacency lists; its index is the old count
add_node(g, weight) ==
    [g EXCEPT !.nodes = Append(@, [weight |-> weight, next |-> <<EdgeEnd, EdgeEnd>>])]

\* Graph::add_edge: the new edge becomes the head of a's outgoing and b's incoming list
add_edge(g, a, b, weight) ==
    LET edge_idx == Len(g.edges)
        an == NodeAt(g, a)
        bn == NodeAt(g, b)
    IN  IF a = b
        THEN [nodes |-> [g.nodes EXCEPT ![a + 1].next = <<edge_idx, edge_idx>>],
              edges |-> Append(g.edges,
                               [weight |-> weight, node |-> <<a, b>>, next |-> an.next])]
        ELSE [nodes |-> [g.nodes EXCEPT ![a + 1].next = <<edge_idx, an.next[2]>>,
                                        ![b + 1].next = <<bn.next[1], edge_idx>>],
              edges |-> Append(g.edges,
                               [weight |-> weight, node |-> <<a, b>>,
                                next |-> <<an.next[1], bn.next[2]>>])]

-----------------------------------------------------------------------------
(* Record ingestion *)

\* mutant of add_persons: every field of the row is stored, null or not
add_persons_overwrite(heritage, person) ==
    [heritage EXCEPT !.person.SpouseID = person.SpouseID,
                     !.person.FatherID = person.FatherID,
                     !.person.MotherID = person.MotherID]

\* fn add_persons: a non-null optional field of the row overwrites the record's
add_persons(heritage, person) ==
    LET h1 == IF is_some(person.SpouseID)
              THEN [heritage EXCEPT !.person.SpouseID = person.SpouseID] ELSE heritage
        h2 == IF is_some(person.FatherID)
              THEN [h1 EXCEPT !.person.FatherID = person.FatherID] ELSE h1
        h3 == IF is_some(person.MotherID)
              THEN [h2 EXCEPT !.person.MotherID = person.MotherID] ELSE h2
    IN  h3

\* HashMap::insert of a key that is absent
MapInsert(map, key, value) ==
    [k \in DOMAIN map \cup {key} |-> IF k = key THEN value ELSE map[k]]

\* mutant of ProcessRow: a row of a known identifier gets a node of its own
ProcessRow_renode(g, map, person) ==
    LET person_id == person.PersonID
    IN  IF person_id \in DOMAIN map
        THEN <<add_node(g, person_id),
               [map EXCEPT ![person_id] =
                               [add_persons(@, person) EXCEPT !.node_idx = node_count(g)]]>>
        ELSE <<add_node(g, person_id),
               MapInsert(map, person_id,
                         [person |-> person, node_idx |-> node_count(g)])>>

\* body of the loop of extract_graph_from_csv for one deserialized row:
\* the pair <<graph, heritage_map>> after the row
ProcessRow(g, map, person) ==
    LET person_id == person.PersonID
    IN  IF person_id \in DOMAIN map
        THEN <<g, [map EXCEPT ![person_id] = add_persons(@, person)]>>
        ELSE <<add_node(g, person_id),
               MapInsert(map, person_id,
                         [person |-> person, node_idx |-> node_count(g)])>>

-----------------------------------------------------------------------------
(* Edge construction *)

\* mutant of add_optional_person: no second edge between a pair already joined
add_optional_person_dedup(g, map, heritage, relative_opt, rel) ==
    IF /\ is_some(relative_opt)
       /\ relative_opt \in DOMAIN map
       /\ \A i \in 1..Len(g.edges) :
             /\ g.edges[i].node # <<heritage.node_idx, map[relative_opt].node_idx>>
             /\ g.edges[i].node # <<map[relative_opt].node_idx, heritage.node_idx>>
    THEN add_edge(g, heritage.node_idx, map[relative_opt].node_idx, rel)
    ELSE g

\* the closure add_optional_person of add_graph_edges, for one heritage
add_optional_person(g, map, heritage, relative_opt, rel) ==
    IF is_some(relative_opt) /\ relative_opt \in DOMAIN map
    THEN add_edge(g, heritage.node_idx, map[relative_opt].node_idx, rel)
    ELSE g

\* mutant of AddEdgesOf: the labels of the father and the mother edge exchanged
AddEdgesOf_swapped(g, map, heritage) ==
    LET g1 == add_optional_person(g, map, heritage, heritage.person.SpouseID, "Spouse")
        g2 == add_optional_person(g1, map, heritage, heritage.person.FatherID, "Mother")
        g3 == add_optional_person(g2, map, heritage, heritage.person.MotherID, "Father")
    IN  g3

\* one iteration of the loop of add_graph_edges
AddEdgesOf(g, map, heritage) ==
    LET g1 == add_optional_person(g, map, heritage, heritage.person.SpouseID, "Spouse")
        g2 == add_optional_person(g1, map, heritage, heritage.person.FatherID, "Father")
        g3 == add_optional_person(g2, map, heritage, heritage.person.MotherID, "Mother")
    IN  g3

\* fn add_graph_edges, with heritage_map.values() yielding the entries in `order`
RECURSIVE add_graph_edges(_, _, _)
add_graph_edges(g, map, order) ==
    IF order = <<>> THEN g
    ELSE add_graph_edges(AddEdgesOf(g, map, map[Head(order)]), map, Tail(order))

\* the orders in which HashMap::values() may yield the entries of a map with keys S
IterationOrders(S) ==
    {f \in [1..Cardinality(S) -> S] : \A i, j \in 1..Cardinality(S) : f[i] = f[j] => i = j}

-----------------------------------------------------------------------------
(* Graph queries of petgraph used by the resolver *)

\* walk of one adjacency list from edge index e: k = 1 outgoing, k = 2 incoming
RECURSIVE EdgeList(_, _, _)
EdgeList(g, e, k) ==
    IF e = EdgeEnd THEN <<>> ELSE <<e>> \o EdgeList(g, EdgeAt(g, e).next[k], k)

SelectSeqTargets(g, es, k) == [i \in 1..Len(es) |-> EdgeAt(g, es[i]).node[k]]

\* mutant of edges: the graph taken as directed, outgoing edges only
edges_outgoing(g, a) ==
    SelectSeqTargets(g, EdgeList(g, NodeAt(g, a).next[1], 1), 2)

\* Graph::edges(a) of an undirected graph, as the sequence of edge targets: the
\* outgoing list (target = node[1]), then the incoming list (target = node[0])
\* without the self-loops, which the outgoing list already yielded
edges(g, a) ==
    LET out == EdgeList(g, NodeAt(g, a).next[1], 1)
        inc == SelectSeq(EdgeList(g, NodeAt(g, a).next[2], 2),
                         LAMBDA e : EdgeAt(g, e).node[1] # a)
    IN  SelectSeqTargets(g, out, 2) \o SelectSeqTargets(g, inc, 1)

\* mutant of find_edge: the first edge at a, whatever its other end
find_edge_first(g, a, b) ==
    IF NodeAt(g, a).next[1] # EdgeEnd THEN NodeAt(g, a).next[1]
    ELSE NodeAt(g, a).next[2]

\* Graph::find_edge_undirected_from_node: first edge of a's outgoing list whose
\* target is b, else first edge of a's incoming list whose source is b
find_edge(g, a, b) ==
    LET out == SelectSeq(EdgeList(g, NodeAt(g, a).next[1], 1),
                         LAMBDA e : EdgeAt(g, e).node[2] = b)
        inc == SelectSeq(EdgeList(g, NodeAt(g, a).next[2], 2),
                         LAMBDA e : EdgeAt(g, e).node[1] = b)
    IN  IF out # <<>> THEN out[1]
        ELSE IF inc # <<>> THEN inc[1]
        ELSE EdgeEnd

\* Graph::edge_weight
edge_weight(g, e) == EdgeAt(g, e).weight

-----------------------------------------------------------------------------
(* std::collections::BinaryHeap<MinScored<i32, NodeIndex>>, positions 0-based. *)
(* MinScored orders by the score alone, reversed: x <= y iff x.score >= y.score *)

MinScored(score, node) == [score |-> score, node |-> node]

At(data, pos) == data[pos + 1]

\* BinaryHeap::sift_up(start, pos) with the element `elt` taken out of the hole at pos
RECURSIVE sift_up(_, _, _, _)
sift_up(data, start, pos, elt) ==
    IF pos > start
    THEN LET parent == (pos - 1) \div 2
         IN  IF elt.score >= At(data, parent).score
             THEN [data EXCEPT ![pos + 1] = elt]
             ELSE sift_up([data EXCEPT ![pos + 1] = At(data, parent)], start, parent, elt)
    ELSE [data EXCEPT ![pos + 1] = elt]

\* BinaryHeap::push
heap_push(data, item) == sift_up(Append(data, item), 0, Len(data), item)

\* the loop of BinaryHeap::sift_down_to_bottom: move the hole down to a leaf,
\* always towards the greater child (the right one when they compare equal)
RECURSIVE sift_down_hole(_, _)
sift_down_hole(data, pos) ==
    LET end == Len(data)
        left == 2 * pos + 1
        right == left + 1
        child == IF right < end /\ ~(At(data, left).score < At(data, right).score)
                 THEN right ELSE left
    IN  IF left < end
        THEN sift_down_hole([data EXCEPT ![pos + 1] = At(data, child)], child)
        ELSE <<data, pos>>

sift_down_to_bottom(data, pos) ==
    LET elt == At(data, pos)
        down == sift_down_hole(data, pos)
    IN  sift_up(down[1], pos, down[2], elt)

\* BinaryHeap::pop on a non-empty heap: <<popped item, remaining heap>>
heap_pop(data) ==
    LET last == data[Len(data)]
        rest == SubSeq(data, 1, Len(data) - 1)
    IN  IF rest = <<>> THEN <<last, rest>>
        ELSE <<rest[1], sift_down_to_bottom([rest EXCEPT ![1] = last], 0)>>

-----------------------------------------------------------------------------
(* petgraph::algo::astar(&graph, start, |e| e == finish, |_| 1, |_| 0) *)

\* mutant of reconstruct_path_to: the walk back stops before the node that has
\* no predecessor, so the start is left out of the path
RECURSIVE reconstruct_path_to_nostart(_, _)
reconstruct_path_to_nostart(came_from, last) ==
    IF last \in DOMAIN came_from
    THEN Append(reconstruct_path_to_nostart(came_from, came_from[last]), last)
    ELSE <<>>

\* PathTracker::reconstruct_path_to: follow came_from back from `last`
RECURSIVE reconstruct_path_to(_, _)
reconstruct_path_to(came_from, last) ==
    IF last \in DOMAIN came_from
    THEN Append(reconstruct_path_to(came_from, came_from[last]), last)
    ELSE <<last>>

\* the `for edge in graph.edges(node)` loop of astar over the targets `nexts`,
\* with edge cost |_| 1 and estimate |_| 0: a neighbour already reached with a
\* score not greater than the new one is passed over without a push; otherwise
\* its score and predecessor are stored and it is pushed
RECURSIVE astar_relax(_, _, _, _)
astar_relax(st, node, node_score, nexts) ==
    IF nexts = <<>> THEN st
    ELSE LET next == Head(nexts)
             next_score == node_score + 1
         IN  IF next \in DOMAIN st.scores /\ st.scores[next] <= next_score
             THEN astar_relax(st, node, node_score, Tail(nexts))
             ELSE astar_relax(
                      [st EXCEPT !.scores = MapInsert(@, next, next_score),
                                 !.came_from = MapInsert(@, next, node),
                                 !.visit_next =
                                     heap_push(@, MinScored(next_score + 0, next))],
                      node, node_score, Tail(nexts))

\* the `while let Some(..) = visit_next.pop()` loop of astar: the goal test comes
\* first; a popped entry whose node has since got a strictly smaller score is
\* passed over (there is no visited set); the node path on success, <<>> for
\* None (a found path is never empty)
RECURSIVE astar_loop(_, _, _)
astar_loop(g, st, finish) ==
    IF st.visit_next = <<>> THEN <<>>
    ELSE LET popped == heap_pop(st.visit_next)
             node == popped[1].node
             st1 == [st EXCEPT !.visit_next = popped[2]]
         IN  IF node = finish
             THEN reconstruct_path_to(st.came_from, node)
             ELSE IF st.scores[node] < popped[1].score
             THEN astar_loop(g, st1, finish)
             ELSE astar_loop(g,
                             astar_relax(st1, node, st.scores[node], edges(g, node)),
                             finish)

astar(g, start, finish) ==
    astar_loop(g,
               [visit_next |-> <<MinScored(0, start)>>,
                scores |-> (start :> 0),
                came_from |-> << >>],
               finish)

-----------------------------------------------------------------------------
(* Path resolver *)

\* mutant of map_edges: the node path walked from start to finish
map_edges_forward(nodes, g) ==
    LET n == Len(nodes)
    IN  [i \in 1..n |->
            <<NodeAt(g, nodes[i]).weight,
              IF i < n THEN find_edge(g, nodes[i], nodes[i + 1]) ELSE EdgeEnd>>]

\* fn map_edges: walk the node path in reverse; each node is paired with the
\* edge find_edge reports towards the node that follows it (EdgeEnd for None)
map_edges(nodes, g) ==
    LET n == Len(nodes)
        rev == [i \in 1..n |-> nodes[n + 1 - i]]
    IN  [i \in 1..n |->
            <<NodeAt(g, rev[i]).weight,
              IF i < n THEN find_edge(g, rev[i], rev[i + 1]) ELSE EdgeEnd>>]

Ok(rels) == [ok |-> TRUE, err |-> "", rels |-> rels]
Err(msg) == [ok |-> FALSE, err |-> msg, rels |-> <<>>]

\* mutant of get_shortest_path: no path gives an empty success
get_shortest_path_empty(g, map, child, ancestor) ==
    IF child \notin DOMAIN map THEN Err("invalid start id")
    ELSE IF ancestor \notin DOMAIN map THEN Err("invalid finish id")
    ELSE LET start_idx == map[child].node_idx
             finish_idx == map[ancestor].node_idx
             nodes == astar(g, start_idx, finish_idx)
             mapped == map_edges(nodes, g)
         IN  IF nodes = <<>> THEN Ok(<<>>)
             ELSE IF \E i \in 1..Len(mapped) : mapped[i][1] \notin DOMAIN map
             THEN Err("invalid person_id")
             ELSE Ok([i \in 1..Len(mapped) |->
                        [id |-> mapped[i][1],
                         name |-> map[mapped[i][1]].person.Person,
                         relationship |-> IF mapped[i][2] = EdgeEnd THEN NoRelationship
                                          ELSE edge_weight(g, mapped[i][2])]])

\* fn get_shortest_path
get_shortest_path(g, map, child, ancestor) ==
    IF child \notin DOMAIN map THEN Err("invalid start id")
    ELSE IF ancestor \notin DOMAIN map THEN Err("invalid finish id")
    ELSE LET start_idx == map[child].node_idx
             finish_idx == map[ancestor].node_idx
             nodes == astar(g, start_idx, finish_idx)
             mapped == map_edges(nodes, g)
         IN  IF nodes = <<>> THEN Err("no direct or indirect relationship found")
             ELSE IF \E i \in 1..Len(mapped) : mapped[i][1] \notin DOMAIN map
             THEN Err("invalid person_id")
             ELSE Ok([i \in 1..Len(mapped) |->
                        [id |-> mapped[i][1],
                         name |-> map[mapped[i][1]].person.Person,
                         relationship |-> IF mapped[i][2] = EdgeEnd THEN NoRelationship
                                          ELSE edge_weight(g, mapped[i][2])]])

-----------------------------------------------------------------------------
(* Input files *)

Row(id, spouse, father, mother, name) ==
    [PersonID |-> id, SpouseID |-> spouse, FatherID |-> father,
     MotherID |-> mother, Person |-> name]

\* const CSV of mod tests (main.rs 243-249)
TestCSV ==
    << Row(1, None, 2, 6, "?1"),
       Row(2, 6, 3, 4, "F2"),
       Row(3, 4, None, 5, "F3"),
       Row(4, 3, None, None, "M4"),
       Row(5, None, None, None, "M5"),
       Row(6, 2, None, None, "M6") >>

\* the dataset as the specification's path example words it: three rows only
SpecExampleRows ==
    << Row(1, None, 2, 6, "?1"),
       Row(2, 6, 3, 4, "F2"),
       Row(3, None, 5, None, "F3") >>

\* the same with a row for each person the three rows mention
SpecExampleAllRows ==
    SpecExampleRows \o
    << Row(4, None, None, None, "M4"),
       Row(5, None, None, None, "M5"),
       Row(6, None, None, None, "M6") >>

\* "any.csv" stands for every file within the bounds, "missing.csv" for a path
\* that cannot be opened; the others are fixed, well-formed files
CsvFiles == {"any.csv", "missing.csv", "tests.csv", "spec.csv", "spec_all.csv"}

FileRows(path) ==
    CASE path = "tests.csv" -> TestCSV
      [] path = "spec.csv" -> SpecExampleRows
      [] path = "spec_all.csv" -> SpecExampleAllRows

ExampleIds == 1..6

-----------------------------------------------------------------------------
(* The program as a state machine *)

NoResult == [ok |-> FALSE, err |-> "not run", rels |-> <<>>]

Init ==
    /\ csv_path \in CsvFiles
    /\ pc = "start"
    /\ rows = <<>>
    /\ graph = EmptyGraph
    /\ heritage_map = << >>
    /\ child_id = None
    /\ ancestor_id = None
    /\ result = NoResult

\* File::open(cmd_input.csv_path)? (main.rs 216): an io error ends main, else
\* extract_graph_from_csv starts with an empty graph and index (102-105)
OpenFile ==
    /\ pc = "start"
    /\ IF csv_path = "missing.csv"
       THEN pc' = "failed" /\ result' = Err("io::Error")
       ELSE pc' = "ingest" /\ result' = result
    /\ UNCHANGED <<csv_path, rows, graph, heritage_map, child_id, ancestor_id>>

\* rows that deserialize and that the reader may yield next
NextRows ==
    IF csv_path = "any.csv"
    THEN IF Len(rows) < MaxRows
         THEN {person \in Person : TotalRefs(rows) + RefCount(person) <= MaxRefs}
         ELSE {}
    ELSE IF Len(rows) < Len(FileRows(csv_path))
         THEN {FileRows(csv_path)[Len(rows) + 1]}
         ELSE {}

\* whether the reader may be at the end of the file
EndOfFile ==
    IF csv_path = "any.csv" THEN TRUE ELSE Len(rows) = Len(FileRows(csv_path))

\* one iteration of `for result in rdr.deserialize()` (main.rs 107-124)
IngestRow ==
    /\ pc = "ingest"
    /\ \E person \in NextRows :
          LET after == ProcessRow(graph, heritage_map, person)
          IN  /\ rows' = Append(rows, person)
              /\ graph' = after[1]
              /\ heritage_map' = after[2]
    /\ UNCHANGED <<csv_path, pc, child_id, ancestor_id, result>>

\* `let person: Person = result?` on a row that does not deserialize (main.rs
\* 108): extract_graph_from_csv returns the csv error, main returns it, and the
\* graph and the index built so far are dropped; the fixed files have no such row
ParseError ==
    /\ pc = "ingest"
    /\ csv_path = "any.csv"
    /\ Len(rows) < MaxRows
    /\ pc' = "failed"
    /\ result' = Err("csv::Error")
    /\ rows' = <<>>
    /\ graph' = EmptyGraph
    /\ heritage_map' = << >>
    /\ UNCHANGED <<csv_path, child_id, ancestor_id>>

\* end of input: add_graph_edges and return (main.rs 126-128); the reader is dropped
FinishIngest ==
    /\ pc = "ingest"
    /\ EndOfFile
    /\ \E order \in IterationOrders(DOMAIN heritage_map) :
          graph' = add_graph_edges(graph, heritage_map, order)
    /\ pc' = "built"
    /\ rows' = <<>>
    /\ UNCHANGED <<csv_path, heritage_map, child_id, ancestor_id, result>>

\* identifiers a query may name
QueryIds == IF csv_path = "any.csv" THEN PersonIds ELSE ExampleIds

\* main's call of get_shortest_path (main.rs 220-225)
Query ==
    /\ pc = "built"
    /\ \E child \in QueryIds, ancestor \in QueryIds :
          /\ child_id' = child
          /\ ancestor_id' = ancestor
          /\ result' = get_shortest_path(graph, heritage_map, child, ancestor)
    /\ pc' = "done"
    /\ UNCHANGED <<csv_path, rows, graph, heritage_map>>

Next == OpenFile \/ IngestRow \/ ParseError \/ FinishIngest \/ Query

Spec == Init /\ [][Next]_vars

-----------------------------------------------------------------------------
(* Vocabulary of the properties.  None of it is used by the model above: *)
(* the properties read the graph's edge list, the index and the rows     *)
(* directly, not through petgraph's adjacency lists or astar.            *)

Known(id) == id \in DOMAIN heritage_map

NodeOf(id) == heritage_map[id].node_idx

FieldOf(rel) ==
    CASE rel = "Spouse" -> "SpouseID"
      [] rel = "Father" -> "FatherID"
      [] rel = "Mother" -> "MotherID"

\* positions of the rows read so far that carry identifier id
RowsOf(id) == {i \in 1..Len(rows) : rows[i].PersonID = id}

Max(S) == CHOOSE m \in S : \A x \in S : x <= m
Min(S) == CHOOSE m \in S : \A x \in S : m <= x

\* the value of the last row of id in which the field is non-null, None if none is
LastSupplied(id, field) ==
    LET supplying == {i \in RowsOf(id) : rows[i][field] # None}
    IN  IF supplying = {} THEN None ELSE rows[Max(supplying)][field]

\* number of distinct identifiers among the rows before id's first row
HandleAtFirstRow(id) ==
    Cardinality({rows[j].PersonID : j \in 1..(Min(RowsOf(id)) - 1)})

\* positions of the edges joining nodes a and b, in either orientation
EdgesJoining(g, a, b) ==
    {i \in 1..Len(g.edges) : g.edges[i].node = <<a, b>> \/ g.edges[i].node = <<b, a>>}

Adjacent(g, a, b) == EdgesJoining(g, a, b) # {}

GraphNodes(g) == 0..(node_count(g) - 1)

\* nodes at most n edges away from a
RECURSIVE Within(_, _, _)
Within(g, a, n) ==
    IF n = 0 THEN {a}
    ELSE LET prev == Within(g, a, n - 1)
         IN  prev \cup {b \in GraphNodes(g) : \E c \in prev : Adjacent(g, c, b)}

Connected(g, a, b) == b \in Within(g, a, node_count(g))

\* breadth-first distance of two connected nodes
Distance(g, a, b) == Min({n \in 0..node_count(g) : b \in Within(g, a, n)})

BothKnown == Known(child_id) /\ Known(ancestor_id)

NoPathError == "no direct or indirect relationship found"

-----------------------------------------------------------------------------
(* C1  Merge policy *)

\* C1: while rows are ingested, for every identifier seen and each of the three
\* optional fields, the canonical record holds the value of the last row of that
\* identifier in which the field was non-null, and null only if no row of that
\* identifier supplied it (a later null never erases a stored value).
C1_MergePolicy ==
    pc = "ingest" =>
        /\ DOMAIN heritage_map = {rows[i].PersonID : i \in 1..Len(rows)}
        /\ \A id \in DOMAIN heritage_map :
              \A field \in {"SpouseID", "FatherID", "MotherID"} :
                 heritage_map[id].person[field] = LastSupplied(id, field)

\* two rows of one identifier with disjoint fields: the first field survives the
\* second row's null, and the second row's field is added
C1_Witness ==
    /\ pc = "ingest"
    /\ Len(rows) = 2
    /\ rows[1].PersonID = rows[2].PersonID
    /\ \E f1, f2 \in {"SpouseID", "FatherID", "MotherID"} :
          /\ rows[1][f1] # None /\ rows[2][f1] = None
          /\ rows[1][f2] = None /\ rows[2][f2] # None
          /\ heritage_map[rows[1].PersonID].person[f1] = rows[1][f1]
          /\ heritage_map[rows[1].PersonID].person[f2] = rows[2][f2]

-----------------------------------------------------------------------------
(* C2  Node stability *)

\* C2: every identifier seen has one node handle, the one assigned at its first
\* row (the number of distinct identifiers seen before it), whatever rows follow;
\* no two identifiers share a handle; the node at the handle carries the
\* identifier; and node count = index size = number of distinct identifiers.
C2_NodeStability ==
    /\ \A id \in DOMAIN heritage_map :
          /\ NodeOf(id) \in GraphNodes(graph)
          /\ NodeAt(graph, NodeOf(id)).weight = id
          /\ pc = "ingest" => NodeOf(id) = HandleAtFirstRow(id)
    /\ \A id1, id2 \in DOMAIN heritage_map : NodeOf(id1) = NodeOf(id2) => id1 = id2
    /\ node_count(graph) = Cardinality(DOMAIN heritage_map)
    /\ pc = "ingest" =>
          node_count(graph) = Cardinality({rows[i].PersonID : i \in 1..Len(rows)})

\* a second, different row of an identifier already seen: no new node, handle kept
C2_Witness ==
    /\ pc = "ingest"
    /\ Len(rows) = 2
    /\ rows[1].PersonID = rows[2].PersonID
    /\ rows[1] # rows[2]
    /\ node_count(graph) = 1
    /\ NodeOf(rows[2].PersonID) = 0

-----------------------------------------------------------------------------
(* C3  Edge construction *)

\* the (canonical record, optional field) pairs whose relative is in the index
ResolvableRefs ==
    {<<id, rel>> \in (DOMAIN heritage_map) \X Relationship :
        heritage_map[id].person[FieldOf(rel)] \in DOMAIN heritage_map}

\* C3: once add_graph_edges has run, the edge list holds exactly one edge
\* <<node of the record, node of the relative, kind>> for every (record, field)
\* pair whose relative is non-null and in the index, and nothing else: dangling
\* references add no edge, parallel edges are kept (9 edges for the test file).
C3_EdgesExact ==
    pc \in {"built", "done"} =>
        /\ \A ref \in ResolvableRefs :
              Cardinality({i \in 1..Len(graph.edges) :
                  /\ graph.edges[i].node =
                        <<NodeOf(ref[1]),
                          NodeOf(heritage_map[ref[1]].person[FieldOf(ref[2])])>>
                  /\ graph.edges[i].weight = ref[2]}) = 1
        /\ edge_count(graph) = Cardinality(ResolvableRefs)
        /\ csv_path = "tests.csv" => edge_count(graph) = 9

\* the test file: 9 edges, two of them parallel (3 and 4 declare each other spouse)
C3_Witness ==
    /\ pc = "built"
    /\ edge_count(graph) = 9
    /\ \E a, b \in GraphNodes(graph) : Cardinality(EdgesJoining(graph, a, b)) >= 2

-----------------------------------------------------------------------------
(* C4  Shortest path *)

\* C4: a query between two known, connected identifiers succeeds; every two
\* consecutive persons of its result are joined by an edge of the graph; and the
\* number of steps equals the breadth-first distance of the two nodes.
C4_ShortestPath ==
    (pc = "done" /\ BothKnown /\ Connected(graph, NodeOf(child_id), NodeOf(ancestor_id))) =>
        /\ result.ok
        /\ \A i \in 1..Len(result.rels) : Known(result.rels[i].id)
        /\ \A i \in 1..(Len(result.rels) - 1) :
              Adjacent(graph, NodeOf(result.rels[i].id), NodeOf(result.rels[i + 1].id))
        /\ Len(result.rels) - 1 = Distance(graph, NodeOf(child_id), NodeOf(ancestor_id))

\* a path of two or more steps was found although some neighbour of the finish
\* is no nearer to the start than the finish itself (a longer route exists)
C4_Witness ==
    /\ pc = "done"
    /\ result.ok
    /\ Len(result.rels) >= 3
    /\ \E n \in GraphNodes(graph) :
          /\ n # NodeOf(ancestor_id)
          /\ Adjacent(graph, n, NodeOf(ancestor_id))
          /\ Connected(graph, NodeOf(child_id), n)
          /\ Distance(graph, NodeOf(child_id), n)
                >= Distance(graph, NodeOf(child_id), NodeOf(ancestor_id))

-----------------------------------------------------------------------------
(* C5  The path example *)

Entry(id, rel) == [id |-> id, relationship |-> rel]

\* identifiers and labels of a result, without the names
Chain(res) == [i \in 1..Len(res.rels) |->
                  Entry(res.rels[i].id, res.rels[i].relationship)]

ChainTo5 == << Entry(5, "Mother"), Entry(3, "Father"), Entry(2, "Father"),
               Entry(1, NoRelationship) >>

ChainTo6 == << Entry(6, "Mother"), Entry(1, NoRelationship) >>

ExampleHolds ==
    /\ (pc = "done" /\ child_id = 1 /\ ancestor_id = 5) =>
          (result.ok /\ Chain(result) = ChainTo5)
    /\ (pc = "done" /\ child_id = 1 /\ ancestor_id = 6) =>
          (result.ok /\ Chain(result) = ChainTo6)

\* C5 as stated: on the dataset person 1 (father=2, mother=6), person 2
\* (father=3, mother=4, spouse=6), person 3 (father=5), with or without rows for
\* the persons 4, 5 and 6, query(1,5) yields 5 Mother, 3 Father, 2 Father, 1 and
\* query(1,6) yields 6 Mother, 1.
C5_AsStated ==
    csv_path \in {"spec.csv", "spec_all.csv"} => ExampleHolds

\* C5 amended: on the dataset of the repository's tests (person 3 has mother=5 and
\* spouse=4, and the persons 4, 5 and 6 have rows of their own), query(1,5) yields
\* 5 Mother, 3 Father, 2 Father, 1 (no label on 1) and query(1,6) yields
\* 6 Mother, 1, with the names of the file, whatever order the index iterates in.
C5_TestDataset ==
    csv_path = "tests.csv" =>
        /\ ExampleHolds
        /\ (pc = "done" /\ child_id = 1 /\ ancestor_id = 5) =>
              [i \in 1..4 |-> result.rels[i].name] = <<"M5", "F3", "F2", "?1">>
        /\ (pc = "done" /\ child_id = 1 /\ ancestor_id = 6) =>
              [i \in 1..2 |-> result.rels[i].name] = <<"M6", "?1">>

C5_Witness ==
    /\ csv_path = "tests.csv"
    /\ pc = "done"
    /\ child_id = 1
    /\ ancestor_id = 5
    /\ Chain(result) = ChainTo5

-----------------------------------------------------------------------------
(* C6  Output ordering and label placement *)

\* C6: a successful query returns a non-empty sequence whose first entry is the
\* finish person and whose last entry is the start person; the last entry has no
\* relationship label and every other entry has one.
C6_OrderAndLabels ==
    (pc = "done" /\ result.ok) =>
        /\ Len(result.rels) >= 1
        /\ result.rels[1].id = ancestor_id
        /\ result.rels[Len(result.rels)].id = child_id
        /\ result.rels[Len(result.rels)].relationship = NoRelationship
        /\ \A i \in 1..(Len(result.rels) - 1) :
              result.rels[i].relationship \in Relationship

\* a path of at least two entries between different persons
C6_Witness ==
    /\ pc = "done"
    /\ result.ok
    /\ child_id # ancestor_id
    /\ Len(result.rels) >= 2
    /\ result.rels[1].id = ancestor_id
    /\ result.rels[1].relationship \in Relationship

-----------------------------------------------------------------------------
(* C7  Unknown identifier *)

\* the first argument the resolver finds absent from the index
UnknownStart == ~Known(child_id)
UnknownFinish == Known(child_id) /\ ~Known(ancestor_id)

\* the error tells the offending identifier from every other unknown one
NamesOffender ==
    /\ UnknownStart =>
          \A other \in QueryIds \ (DOMAIN heritage_map \cup {child_id}) :
             get_shortest_path(graph, heritage_map, other, ancestor_id) # result
    /\ UnknownFinish =>
          \A other \in QueryIds \ (DOMAIN heritage_map \cup {ancestor_id}) :
             get_shortest_path(graph, heritage_map, child_id, other) # result

\* C7: a query whose start or finish identifier is absent from the index fails,
\* never returns a successful (possibly empty) result, fails differently from
\* the no-path outcome, and its error names the offending identifier: the
\* same query with another absent identifier in its place gives another error.
C7_UnknownIdNamed ==
    (pc = "done" /\ ~BothKnown) =>
        /\ ~result.ok
        /\ result.rels = <<>>
        /\ result.err # NoPathError
        /\ NamesOffender

-----------------------------------------------------------------------------
(* C8  No-path condition *)

\* C8: a query between two known identifiers in different connected components
\* fails with the no-path error (no success, no unknown-identifier error), and
\* the no-path error is returned only for two known, disconnected identifiers.
C8_NoPath ==
    pc = "done" =>
        (result = Err(NoPathError)
            <=> (BothKnown /\ ~Connected(graph, NodeOf(child_id), NodeOf(ancestor_id))))

\* two known persons, in a graph that has edges, with no path between them
C8_Witness ==
    /\ pc = "done"
    /\ edge_count(graph) >= 1
    /\ BothKnown
    /\ ~Connected(graph, NodeOf(child_id), NodeOf(ancestor_id))
    /\ result.err = NoPathError

-----------------------------------------------------------------------------
(* C9  Symmetry *)

\* C9: the query with start and finish exchanged succeeds exactly when the query
\* does, and then returns the same number of entries.
C9_Symmetry ==
    pc = "done" =>
        LET back == get_shortest_path(graph, heritage_map, ancestor_id, child_id)
        IN  /\ back.ok <=> result.ok
            /\ result.ok => Len(back.rels) = Len(result.rels)

\* a successful query between different persons whose reverse reads differently
C9_Witness ==
    /\ pc = "done"
    /\ result.ok
    /\ child_id # ancestor_id
    /\ LET back == get_shortest_path(graph, heritage_map, ancestor_id, child_id)
       IN  /\ back.ok
           /\ Chain(back) # Chain(result)

-----------------------------------------------------------------------------
(* C10  Label attribution *)

\* C10: in a successful query, the label on each entry X followed by Y is the
\* kind of an edge of the graph joining X's and Y's nodes, and it is a kind under
\* which X's record declares Y or Y's record declares X.
C10_LabelIsDeclaredKind ==
    (pc = "done" /\ result.ok) =>
        \A i \in 1..(Len(result.rels) - 1) :
            LET x == result.rels[i].id
                y == result.rels[i + 1].id
                label == result.rels[i].relationship
            IN  /\ label \in Relationship
                /\ \E e \in EdgesJoining(graph, NodeOf(x), NodeOf(y)) :
                      graph.edges[e].weight = label
                /\ \/ heritage_map[x].person[FieldOf(label)] = y
                   \/ heritage_map[y].person[FieldOf(label)] = x

\* a step over a pair joined by parallel edges of different kinds, reported
\* from the side of the person the reference points to
C10_Witness ==
    /\ pc = "done"
    /\ result.ok
    /\ \E i \in 1..(Len(result.rels) - 1) :
          LET x == result.rels[i].id
              y == result.rels[i + 1].id
          IN  /\ \E e1, e2 \in EdgesJoining(graph, NodeOf(x), NodeOf(y)) :
                    graph.edges[e1].weight # graph.edges[e2].weight
              /\ heritage_map[x].person[FieldOf(result.rels[i].relationship)] # y

=============================================================================
